---- MODULE Spec2Model ----
(***************************************************************************)
(* A model of proc-sc-sim: the process/task model (proc.rs), the hashed    *)
(* timing wheel (timer/hashed_wheel.rs), the kernel Os (os.rs) and the     *)
(* Scheduler dispatch protocol with its policies (scheduler.rs).           *)
(*                                                                         *)
(* Option<T> is modelled as a sequence: <<>> is None and <<v>> is Some(v). *)
(***************************************************************************)
EXTENDS Integers, Sequences, FiniteSets, TLC

VARIABLES
    policy,               \* which Scheduler implementation the Os was built with
    interval,             \* Os.interval
    clock,                \* Os.clock
    waiting_list,         \* Os.waiting_list : HashedWheel<PId>
    processes,            \* Os.processes : HashMap<PId, Process>
    running_process_pid,  \* Os.running_process_pid : Option<PId>
    scheduler,            \* the fields of the Scheduler implementation
    panicked,             \* TRUE once a panic!() has unwound the caller
    last_op,              \* history: the last call made on the Os or the wheel
    retired,              \* history: per id, the last process removed from the table
    admitted,             \* history: the processes given to add_proc before run()
    inserted              \* history: per wheel item, its deadline and its age in ticks

vars == <<policy, interval, clock, waiting_list, processes, running_process_pid,
          scheduler, panicked, last_op, retired, admitted, inserted>>

----------------------------------------------------------------------------
(* Bounds of the model.                                                    *)

\* os.rs sets MAX_PID to 1 << 10; the table is scaled down here.
MAX_PID == 3
\* The clock is not advanced beyond MaxClock.
MaxClock == 1
\* At most MaxPending timeouts are registered in the wheel at a time.
MaxPending == 2
\* Deadlines passed to add_timeout / await_proc range over 0..MaxDeadline.
MaxDeadline == 4
\* The stand-alone wheel is ticked at most MaxWheelTicks times.
MaxWheelTicks == 6
\* The run() driver is followed for at most MaxRunClock ticks.
MaxRunClock == 12
\* Durations passed to Os::await_proc range over 0..MaxDuration.
MaxDuration == 1
\* The configured time slices range over 1..MaxQuantum.
MaxQuantum == 1

None == <<>>
Some(v) == <<v>>
IsSome(o) == o /= <<>>
Unwrap(o) == o[1]

PIds == 1..(MAX_PID - 1)

\* a < b on u64 values; an integer below zero stands for 2^64 + it.
U64Lt(a, b) == IF (a < 0) = (b < 0) THEN a < b ELSE b < 0

----------------------------------------------------------------------------
(* proc.rs                                                                 *)

IOBound(d)  == [kind |-> "IOBound",  duration |-> d]
CPUBound(d) == [kind |-> "CPUBound", duration |-> d]

\* Process::new
ProcessNew(pid, t_arrive, burst_time) ==
    [ id              |-> pid,
      tasks           |-> <<>>,
      state           |-> "Runnable",
      arrive_time     |-> t_arrive,
      turnaround_time |-> None,
      burst_time      |-> burst_time,
      complete_time   |-> None,
      response_time   |-> None,
      time_have_burst |-> 0,
      remaining_time  |-> burst_time,
      complete        |-> FALSE ]

\* Process::append_task
AppendTask(p, task) ==
    [p EXCEPT !.tasks = Append(@, task),
              !.burst_time = @ + task.duration]

\* Process::set_pid
SetPid(p, pid) == [p EXCEPT !.id = pid]

\* Process::set_complete
SetComplete(p, current_time) ==
    [p EXCEPT !.state = "Terminated",
              !.complete_time = Some(current_time),
              !.turnaround_time = Some(current_time - p.arrive_time)]

\* Process::is_complete
IsComplete(p) == p.state = "Terminated"

\* Process::burst.  The result is the pair of the process after the call and the
\* returned Option<Task>.  The u64 fields are kept as integers; a value below
\* zero stands for the wrapped value 2^64 + v of a build without overflow
\* checks.
Burst(p, clk) ==
    LET p1 == IF p.time_have_burst = 0
              THEN [p EXCEPT !.response_time = Some(clk - p.arrive_time - 1)]
              ELSE p
        p2 == [p1 EXCEPT !.time_have_burst = @ + 1,
                         !.remaining_time = @ - 1]
    IN  IF p2.time_have_burst >= p2.burst_time
        THEN [proc |-> SetComplete(p2, clk), ret |-> None]
        ELSE IF p2.tasks = <<>>
             THEN [proc |-> p2, ret |-> None]
             ELSE LET t == [Head(p2.tasks) EXCEPT !.duration = @ - 1]
                  IN  [proc |-> [p2 EXCEPT !.tasks = <<t>> \o Tail(@)],
                       ret  |-> Some(t)]

\* Process::bump_to_next
BumpToNext(p) ==
    IF p.tasks = <<>>
    THEN [proc |-> p, ret |-> None]
    ELSE [proc |-> [p EXCEPT !.tasks = Tail(@),
                             !.time_have_burst = @ + Head(p.tasks).duration],
          ret  |-> Some(Head(p.tasks))]

----------------------------------------------------------------------------
(* timer/hashed_wheel.rs                                                   *)

\* 2^64 modulo n, for a cast of a negative isize to usize.
Pow64Mod(n) ==
    LET a == 65536 % n
        b == (a * a) % n
    IN  (b * b) % n

\* (i as usize) % n
AsUsizeMod(i, n) ==
    IF i >= 0 THEN i % n ELSE (Pow64Mod(n) + (i % n)) % n

\* HashedWheel::with_size_and_resolution
WheelWithSizeAndResolution(wheel_size, resolution) ==
    [ buckets      |-> [i \in 1..wheel_size |-> <<>>],
      current_tick |-> -1,
      wheel_size   |-> wheel_size,
      resolution   |-> resolution ]

\* HashedWheel::new
WheelNew == WheelWithSizeAndResolution(8, 1)

\* HashedWheelBucket::tick (HashedWheelTimeout::tick_a_round on every entry)
BucketTick(b) == [i \in 1..Len(b) |-> [b[i] EXCEPT !.round = @ - 1]]

\* HashedWheel::tick
WheelTick(w) ==
    [w EXCEPT !.current_tick = @ + w.resolution,
              !.buckets = [i \in 1..w.wheel_size |-> BucketTick(w.buckets[i])]]

\* HashedWheel::add_timeout
WheelAddTimeout(w, value, deadline) ==
    LET round == (deadline \div w.wheel_size) + 1
        idx   == AsUsizeMod(deadline, w.wheel_size) + 1
    IN  [w EXCEPT !.buckets[idx] = Append(@, [item |-> value, round |-> round])]

\* HashedWheelBucket::expired_timeout: the pair of the bucket after the call and
\* the returned Option<T>.  `if let Some(expire) = front.and_then(|t| Some(..))`
\* matches whenever the bucket has a front entry, whatever its round.
BucketExpiredTimeout(b) ==
    IF b /= <<>>
    THEN [bucket |-> Tail(b), ret |-> Some(Head(b).item)]
    ELSE [bucket |-> b, ret |-> None]

\* HashedWheel::expire_timeout
WheelExpireTimeout(w) ==
    LET idx == AsUsizeMod(w.current_tick, w.wheel_size) + 1
        r   == BucketExpiredTimeout(w.buckets[idx])
    IN  [wheel |-> [w EXCEPT !.buckets[idx] = r.bucket], ret |-> r.ret]

\* HashedWheel::empty
WheelEmpty(w) == \A i \in 1..w.wheel_size : w.buckets[i] = <<>>

----------------------------------------------------------------------------
(* os.rs.  The handlers are written over a record k that holds the Os      *)
(* fields, the scheduler's fields (k.sch), the policy, the panic flag and  *)
(* tb, the order in which the priority queue breaks ties during this call. *)

\* The smallest element of a non-empty set of integers.
SetMin(S) == CHOOSE x \in S : \A y \in S : x <= y

\* The loop of Os::generate_pid over the keys in sorted order.
RECURSIVE GeneratePidLoop(_, _)
GeneratePidLoop(keys, pid) ==
    IF keys = {}
    THEN pid
    ELSE LET i == SetMin(keys)
         IN  GeneratePidLoop(keys \ {i}, IF pid = i THEN pid + 1 ELSE pid)

\* A generate_pid that takes the number of live processes plus one.
GeneratePidByCount(procs) ==
    LET pid == Cardinality(DOMAIN procs) + 1
    IN  [pid |-> pid, panic |-> pid >= MAX_PID]

\* A generate_pid that lets the id MAX_PID through.
GeneratePidLateCheck(procs) ==
    LET pid == GeneratePidLoop(DOMAIN procs, 1)
    IN  [pid |-> pid, panic |-> pid > MAX_PID]

\* Os::generate_pid: the id found, and whether the call panics.
GeneratePid(procs) ==
    LET pid == GeneratePidLoop(DOMAIN procs, 1)
    IN  [pid |-> pid, panic |-> pid >= MAX_PID]

\* Os::add_proc
OsAddProc(k, process) ==
    LET g == GeneratePid(k.processes)
    IN  IF g.panic
        THEN [k EXCEPT !.panicked = TRUE]
        ELSE [k EXCEPT !.processes = (g.pid :> SetPid(process, g.pid)) @@ @]

\* Os::get_proc, in the Option-returning form scheduler.rs calls
OsGetProc(k, pid) ==
    IF pid \in DOMAIN k.processes THEN Some(k.processes[pid]) ELSE None

\* Os::running_process (called by Scheduler::burst_proc)
OsRunningProcess(k) ==
    IF IsSome(k.running_process_pid)
    THEN OsGetProc(k, Unwrap(k.running_process_pid))
    ELSE None

\* Os::is_completed
OsIsCompleted(k) ==
    \/ DOMAIN k.processes = {}
    \/ \A p \in DOMAIN k.processes : k.processes[p].complete

\* Os::switch_proc
OsSwitchProc(k, pid) ==
    IF pid = None
    THEN [k EXCEPT !.running_process_pid = None]
    ELSE IF k.running_process_pid = None
         THEN k
         ELSE LET new == Unwrap(pid)
                  cur == Unwrap(k.running_process_pid)
              IN  IF cur = new /\ new \notin DOMAIN k.processes
                  THEN [k EXCEPT !.panicked = TRUE]   \* get_mut(&pid).unwrap()
                  ELSE IF new \in DOMAIN k.processes
                       THEN [k EXCEPT !.running_process_pid = Some(new),
                                      !.processes[new].state = "Running"]
                       ELSE k

\* Os::await_proc
OsAwaitProc(k, pid, duration) ==
    [k EXCEPT !.waiting_list = WheelAddTimeout(@, pid, duration)]

\* Os::is_proc_running
OsIsProcRunning(k, pid) ==
    IsSome(k.running_process_pid) /\ Unwrap(k.running_process_pid) = pid

\* Os::complete_proc
OsCompleteProc(k, pid) ==
    IF pid \in DOMAIN k.processes
    THEN [k EXCEPT !.processes[pid] = SetComplete(@, k.clock)]
    ELSE k

----------------------------------------------------------------------------
(* scheduler.rs: the ready structures.                                     *)

\* PriorityQueue<PId, Reverse<u64>> is a function from the queued ids to their
\* keys.  push on a queued id replaces its key.
PqPush(pq, pid, key) == (pid :> key) @@ pq

\* The id peek() and pop() return: the smallest key (the greatest Reverse); the
\* queue's order among equal keys is not specified, tb ranks them.
PqTop(pq, tb) ==
    IF DOMAIN pq = {}
    THEN None
    ELSE Some(CHOOSE p \in DOMAIN pq :
                 \A q \in DOMAIN pq :
                     \/ U64Lt(pq[p], pq[q])
                     \/ pq[p] = pq[q] /\ tb[p] <= tb[q])

PqRemove(pq, pid) == [q \in DOMAIN pq \ {pid} |-> pq[q]]

\* IndexSet::insert: appended unless already present.
IxInsert(q, pid) ==
    IF \E i \in 1..Len(q) : q[i] = pid THEN q ELSE Append(q, pid)

\* IndexSet::remove (swap_remove): the last entry takes the removed one's place.
IxRemove(q, pid) ==
    IF \E i \in 1..Len(q) : q[i] = pid
    THEN LET i == CHOOSE j \in 1..Len(q) : q[j] = pid
             n == Len(q)
         IN  IF i = n
             THEN SubSeq(q, 1, n - 1)
             ELSE [j \in 1..(n - 1) |-> IF j = i THEN q[n] ELSE q[j]]
    ELSE q

\* HashMap::get(..).unwrap_or(0) on used_time_slice_map
UsedTimeSlice(sch, pid) ==
    IF pid \in DOMAIN sch.used_time_slice_map
    THEN sch.used_time_slice_map[pid]
    ELSE 0

\* The scheduler structs have no constructor in scheduler.rs: the fields start
\* empty and the slice configuration is given.
SchedulerInit(time_slice, time_slices) ==
    [ ready_queue         |-> <<>>,      \* FCFS, RoundRobin
      pq                  |-> << >>,     \* SJF, STCF
      used_time_slice_map |-> << >>,     \* RoundRobin, MLFQ
      time_slice          |-> time_slice,
      ready_queues        |-> << <<>>, <<>>, <<>> >>,
      running_process     |-> None,
      time_slices         |-> time_slices,
      total_ticket        |-> 0,         \* FairShare
      next_pid            |-> None,
      process_ticket      |-> << >> ]

----------------------------------------------------------------------------
(* scheduler.rs: the policies' hooks.                                      *)

\* FCFSScheduler::on_process_ready
FCFSOnProcessReady(k, pid) == [k EXCEPT !.sch.ready_queue = Append(@, pid)]

\* FCFSScheduler::switch_process
FCFSSwitchProcess(k) ==
    IF k.sch.ready_queue = <<>>
    THEN OsSwitchProc(k, None)
    ELSE OsSwitchProc([k EXCEPT !.sch.ready_queue = Tail(@)],
                      Some(Head(k.sch.ready_queue)))

\* SJFScheduler::on_process_ready
SJFOnProcessReady(k, pid) ==
    LET proc == OsGetProc(k, pid)
    IN  IF IsSome(proc)
        THEN [k EXCEPT !.sch.pq = PqPush(@, pid, Unwrap(proc).burst_time)]
        ELSE k

\* SJFScheduler::switch_process
SJFSwitchProcess(k) ==
    LET top == PqTop(k.sch.pq, k.tb)
    IN  IF IsSome(top)
        THEN OsSwitchProc([k EXCEPT !.sch.pq = PqRemove(@, Unwrap(top))], top)
        ELSE OsSwitchProc(k, None)

\* STCFScheduler::on_process_ready
STCFOnProcessReady(k, pid) ==
    LET proc == OsGetProc(k, pid)
    IN  IF IsSome(proc)
        THEN [k EXCEPT !.sch.pq = PqPush(@, pid, Unwrap(proc).burst_time)]
        ELSE k

\* STCFScheduler::switch_process
STCFSwitchProcess(k) ==
    LET top == PqTop(k.sch.pq, k.tb)
    IN  IF IsSome(top)
        THEN OsSwitchProc([k EXCEPT !.sch.pq = PqRemove(@, Unwrap(top))], top)
        ELSE OsSwitchProc(k, None)

\* STCFScheduler::on_process_burst
STCFOnProcessBurst(k, pid) ==
    LET proc == OsGetProc(k, pid)
        process_remaining_time ==
            IF IsSome(proc) THEN Unwrap(proc).remaining_time ELSE 0
        top == PqTop(k.sch.pq, k.tb)
    IN  IF IsSome(top) /\ U64Lt(k.sch.pq[Unwrap(top)], process_remaining_time)
        THEN LET k1 == STCFSwitchProcess(k)
             IN  [k1 EXCEPT !.sch.pq = PqPush(@, pid, process_remaining_time)]
        ELSE k

\* RoundRobinScheduler::on_process_ready
RROnProcessReady(k, pid) == [k EXCEPT !.sch.ready_queue = Append(@, pid)]

\* RoundRobinScheduler::switch_process
RRSwitchProcess(k) ==
    IF k.sch.ready_queue = <<>>
    THEN OsSwitchProc(k, None)
    ELSE OsSwitchProc([k EXCEPT !.sch.ready_queue = Tail(@)],
                      Some(Head(k.sch.ready_queue)))

\* RoundRobinScheduler::on_process_burst
RROnProcessBurst(k, pid) ==
    LET used_time_slice == UsedTimeSlice(k.sch, pid)
    IN  IF used_time_slice >= k.sch.time_slice /\ OsIsProcRunning(k, pid)
        THEN RRSwitchProcess(
                 [k EXCEPT !.sch.ready_queue = Append(@, pid),
                           !.sch.used_time_slice_map = (pid :> 0) @@ @])
        ELSE [k EXCEPT !.sch.used_time_slice_map =
                           (pid :> (used_time_slice + k.interval)) @@ @]

\* MLFQScheduler::get_priority (levels are 0, 1, 2 as in the source)
MLFQGetPriority(sch, pid) ==
    IF IsSome(sch.running_process) /\ Unwrap(sch.running_process)[1] = pid
    THEN Unwrap(sch.running_process)[2]
    ELSE IF \E pr \in 0..2 : \E i \in 1..Len(sch.ready_queues[pr + 1]) :
                sch.ready_queues[pr + 1][i] = pid
         THEN SetMin({pr \in 0..2 : \E i \in 1..Len(sch.ready_queues[pr + 1]) :
                          sch.ready_queues[pr + 1][i] = pid})
         ELSE 0

\* MLFQScheduler::level_down
MLFQLevelDown(sch, pid) ==
    LET pr == MLFQGetPriority(sch, pid)
    IN  IF pr >= Len(sch.ready_queues) - 1
        THEN sch
        ELSE LET removed == [sch EXCEPT !.ready_queues[pr + 1] = IxRemove(@, pid)]
             IN  [removed EXCEPT !.ready_queues[pr + 2] = IxInsert(@, pid)]

\* MLFQScheduler::is_proc_running
MLFQIsProcRunning(sch, pid) ==
    IsSome(sch.running_process) /\ Unwrap(sch.running_process)[1] = pid

\* MLFQScheduler::on_process_ready
MLFQOnProcessReady(k, pid) == [k EXCEPT !.sch.ready_queues[1] = IxInsert(@, pid)]

\* MLFQScheduler::switch_process: find_map over the levels of IndexSet::pop,
\* which takes the last entry of the set.
MLFQSwitchProcess(k) ==
    LET nonempty == {pr \in 0..2 : k.sch.ready_queues[pr + 1] /= <<>>}
    IN  IF nonempty /= {}
        THEN LET pr  == SetMin(nonempty)
                 q   == k.sch.ready_queues[pr + 1]
                 pid == q[Len(q)]
             IN  OsSwitchProc(
                     [k EXCEPT !.sch.ready_queues[pr + 1] = SubSeq(q, 1, Len(q) - 1),
                               !.sch.running_process = Some(<<pid, pr>>)],
                     Some(pid))
        ELSE OsSwitchProc([k EXCEPT !.sch.running_process = None], None)

\* MLFQScheduler::on_process_burst
MLFQOnProcessBurst(k, pid) ==
    LET priority      == MLFQGetPriority(k.sch, pid)
        last_priority == Len(k.sch.ready_queues) - 1
    IN  IF priority >= last_priority
        THEN IF \E pr \in 0..(last_priority - 1) : k.sch.ready_queues[pr + 1] /= <<>>
             THEN MLFQSwitchProcess(
                      [k EXCEPT !.sch.ready_queues[last_priority + 1] = IxInsert(@, pid)])
             ELSE k
        ELSE LET used_time_slice == UsedTimeSlice(k.sch, pid)
             IN  IF /\ used_time_slice >= k.sch.time_slices[priority + 1]
                    /\ MLFQIsProcRunning(k.sch, pid)
                 THEN MLFQSwitchProcess(
                          [k EXCEPT !.sch = [MLFQLevelDown(k.sch, pid) EXCEPT
                                !.used_time_slice_map = (pid :> 0) @@ @]])
                 ELSE [k EXCEPT !.sch.used_time_slice_map =
                                    (pid :> (used_time_slice + k.interval)) @@ @]

\* FairShareScheduler reads `p.priority`, a field proc.rs does not declare: the
\* weight of a process is the field when the workload has set it, else 0.
ProcessPriority(p) == IF "priority" \in DOMAIN p THEN p.priority ELSE 0

\* A process with its weight set by the workload.
WithPriority(p, w) == [priority |-> w] @@ p

\* self.process_ticket.values().sum()
RECURSIVE SumTickets(_)
SumTickets(pt) ==
    IF DOMAIN pt = {} THEN 0
    ELSE LET p == CHOOSE q \in DOMAIN pt : TRUE
         IN  pt[p] + SumTickets([q \in DOMAIN pt \ {p} |-> pt[q]])

\* FairShareScheduler::on_process_ready
FairShareOnProcessReady(k, pid) ==
    LET proc == OsGetProc(k, pid)
        ticket == (IF IsSome(proc) THEN ProcessPriority(Unwrap(proc)) ELSE 0) * 100
    IN  [k EXCEPT !.sch.total_ticket = @ + ticket,
                  !.sch.process_ticket = (pid :> ticket) @@ @]

\* FairShareScheduler::switch_process
FairShareSwitchProcess(k) == OsSwitchProc(k, k.sch.next_pid)

\* The `for (p, t) in self.process_ticket.iter()` loop of on_process_burst over
\* the holders left; the map's iteration order is k.tb.  `winner` is a usize: a
\* value below zero stands for the wrapped 2^64 + winner, which is > 0.
RECURSIVE FairShareDraw(_, _, _)
FairShareDraw(k, left, winner) ==
    IF left = {} THEN k
    ELSE LET p == CHOOSE q \in left : \A o \in left : k.tb[q] <= k.tb[o]
             w == winner - k.sch.process_ticket[p]
         IN  IF w /= 0
             THEN FairShareDraw(k, left \ {p}, w)
             ELSE FairShareSwitchProcess([k EXCEPT !.sch.next_pid = Some(p)])

\* FairShareScheduler::on_process_burst.  k.rnd is the value rand::random
\* returns; the remainder by a total of zero panics.
FairShareOnProcessBurst(k, pid) ==
    LET kept == {p \in DOMAIN k.sch.process_ticket :
                    /\ IsSome(OsGetProc(k, p))
                    /\ ~IsComplete(Unwrap(OsGetProc(k, p)))}
        pt == [p \in kept |-> k.sch.process_ticket[p]]
        k1 == [k EXCEPT !.sch.process_ticket = pt,
                        !.sch.total_ticket = SumTickets(pt)]
    IN  IF kept = {}
        THEN FairShareSwitchProcess([k1 EXCEPT !.sch.next_pid = None])
        ELSE IF k1.sch.total_ticket = 0
             THEN [k1 EXCEPT !.panicked = TRUE]
             ELSE FairShareDraw(k1, kept, (k.rnd % k1.sch.total_ticket) + 1)

----------------------------------------------------------------------------
(* scheduler.rs: the Scheduler trait, dispatching on the policy.           *)

\* Scheduler::on_process_ready
OnProcessReady(k, pid) ==
    CASE k.policy = "FCFS" -> FCFSOnProcessReady(k, pid)
      [] k.policy = "SJF"  -> SJFOnProcessReady(k, pid)
      [] k.policy = "STCF" -> STCFOnProcessReady(k, pid)
      [] k.policy = "RR"   -> RROnProcessReady(k, pid)
      [] k.policy = "MLFQ" -> MLFQOnProcessReady(k, pid)
      [] k.policy = "FairShare" -> FairShareOnProcessReady(k, pid)

\* Scheduler::switch_process
SwitchProcess(k) ==
    CASE k.policy = "FCFS" -> FCFSSwitchProcess(k)
      [] k.policy = "SJF"  -> SJFSwitchProcess(k)
      [] k.policy = "STCF" -> STCFSwitchProcess(k)
      [] k.policy = "RR"   -> RRSwitchProcess(k)
      [] k.policy = "MLFQ" -> MLFQSwitchProcess(k)
      [] k.policy = "FairShare" -> FairShareSwitchProcess(k)

\* Scheduler::on_process_burst (the default is a no-op)
OnProcessBurst(k, pid) ==
    CASE k.policy = "STCF" -> STCFOnProcessBurst(k, pid)
      [] k.policy = "RR"   -> RROnProcessBurst(k, pid)
      [] k.policy = "MLFQ" -> MLFQOnProcessBurst(k, pid)
      [] k.policy = "FairShare" -> FairShareOnProcessBurst(k, pid)
      [] OTHER             -> k

\* Scheduler::run_io_bound_task
RunIoBoundTask(k, duration, pid) ==
    LET proc == OsGetProc(k, pid)
        k1 == IF IsSome(proc)
              THEN LET b == BumpToNext(Unwrap(proc))
                       kb == [k EXCEPT !.processes[pid] = b.proc]
                       inner_pid == IF IsSome(b.ret) THEN b.proc.id ELSE 0
                       is_completed == IsSome(b.ret) /\ IsComplete(b.proc)
                   IN  IF is_completed
                       THEN OsCompleteProc(kb, inner_pid)
                       ELSE OsAwaitProc(kb, inner_pid, duration)
              ELSE k
    IN  IF OsIsProcRunning(k1, pid) THEN SwitchProcess(k1) ELSE k1

\* Scheduler::run_cpu_bound_task
RunCpuBoundTask(k, duration, pid) == k

\* Scheduler::run_task
RunTask(k, task, pid) ==
    IF task.kind = "CPUBound"
    THEN RunCpuBoundTask(k, task.duration, pid)
    ELSE RunIoBoundTask(k, task.duration, pid)

\* Scheduler::burst_proc
BurstProc(k) ==
    LET running == OsRunningProcess(k)
    IN  IF IsSome(running)
        THEN LET b   == Burst(Unwrap(running), k.clock)
                 pid == b.proc.id
                 is_completed == IsComplete(b.proc)
                 kb  == [k EXCEPT !.processes[Unwrap(k.running_process_pid)] = b.proc]
                 k1  == IF IsSome(b.ret)
                        THEN RunTask(kb, Unwrap(b.ret), pid)
                        ELSE IF is_completed
                             THEN LET kc == OsCompleteProc(kb, pid)
                                  IN  IF OsIsProcRunning(kc, pid)
                                      THEN SwitchProcess(kc)
                                      ELSE kc
                             ELSE kb
             IN  OnProcessBurst(k1, pid)
        ELSE SwitchProcess(k)

\* The `while let Some(p) = os.waiting_list.expire_timeout()` loop of on_tick.
RECURSIVE DrainExpired(_)
DrainExpired(k) ==
    LET r == WheelExpireTimeout(k.waiting_list)
    IN  IF IsSome(r.ret)
        THEN DrainExpired(OnProcessReady([k EXCEPT !.waiting_list = r.wheel],
                                         Unwrap(r.ret)))
        ELSE k

\* Scheduler::on_tick
OnTick(k) == BurstProc(DrainExpired(k))

\* Os::tick
OsTick(k) ==
    LET k1 == [k EXCEPT !.clock = @ + k.interval,
                        !.waiting_list = WheelTick(@)]
        k2 == OnTick(k1)
    IN  [k2 EXCEPT !.processes =
            [p \in {q \in DOMAIN k2.processes : k2.processes[q].state /= "Terminated"}
                |-> k2.processes[p]]]

----------------------------------------------------------------------------
(* The state machine of the kernel under its public operations.            *)

\* The processes the workload builder hands to add_proc: one built from a
\* segment, one from a burst time alone.
Workloads ==
    { AppendTask(ProcessNew(0, 0, 0), CPUBound(5)),
      ProcessNew(0, 0, 3) }

\* The processes of the end-to-end runs: a single CPU-bound segment each.
RunWorkloads ==
    { AppendTask(ProcessNew(0, 0, 0), CPUBound(5)),
      AppendTask(ProcessNew(0, 0, 0), CPUBound(2)) }

\* The policies and their slice configuration.
Configs ==
    {[policy |-> pol, time_slice |-> 0, time_slices |-> <<0, 0>>] :
        pol \in {"FCFS", "SJF", "STCF"}}
    \cup {[policy |-> "RR", time_slice |-> q, time_slices |-> <<0, 0>>] :
        q \in 1..MaxQuantum}
    \cup {[policy |-> "MLFQ", time_slice |-> 0, time_slices |-> <<a, b>>] :
        a \in 1..MaxQuantum, b \in 1..MaxQuantum}

\* The orders in which a priority queue may break ties among equal keys.
TieBreaks ==
    {tb \in [PIds -> PIds] : \A p, q \in PIds : p /= q => tb[p] /= tb[q]}

\* The ties matter to the priority-queue policies only.
TieBreaksOf(pol) ==
    IF pol \in {"SJF", "STCF", "FairShare"} THEN TieBreaks ELSE {[p \in PIds |-> p]}

\* The number of timeouts registered in a wheel.
RECURSIVE SumLen(_, _)
SumLen(buckets, n) ==
    IF n = 0 THEN 0 ELSE Len(buckets[n]) + SumLen(buckets, n - 1)

Pending(w) == SumLen(w.buckets, w.wheel_size)

\* The items registered in a wheel.
PendingItems(w) ==
    UNION {{w.buckets[i][j].item : j \in 1..Len(w.buckets[i])} : i \in 1..w.wheel_size}

\* The record the handlers work on, from the variables.
K(tb) ==
    [ policy              |-> policy,
      interval            |-> interval,
      clock               |-> clock,
      waiting_list        |-> waiting_list,
      processes           |-> processes,
      running_process_pid |-> running_process_pid,
      sch                 |-> scheduler,
      panicked            |-> panicked,
      tb                  |-> tb,
      rnd                 |-> 0 ]

\* The variables after a handler, from its record.
Commit(k) ==
    /\ clock' = k.clock
    /\ waiting_list' = k.waiting_list
    /\ processes' = k.processes
    /\ running_process_pid' = k.running_process_pid
    /\ scheduler' = k.sch
    /\ panicked' = k.panicked
    /\ UNCHANGED <<policy, interval>>

NoTb == [p \in PIds |-> p]

\* Os::new with HashedWheel::new, and the scheduler it is given.
Init ==
    /\ \E c \in Configs :
          /\ policy = c.policy
          /\ scheduler = SchedulerInit(c.time_slice, c.time_slices)
    /\ interval = 1
    /\ clock = 0
    /\ waiting_list = WheelNew
    /\ processes = << >>
    /\ running_process_pid = None
    /\ panicked = FALSE
    /\ last_op = [op |-> "new", arg |-> None, ret |-> None]
    /\ retired = [p \in PIds |-> None]
    /\ admitted = <<>>
    /\ inserted = [x \in PIds |-> None]

\* os.add_proc(&mut process)
AddProc(w) ==
    /\ ~panicked
    /\ LET k == OsAddProc(K(NoTb), w)
       IN  /\ Commit(k)
           /\ last_op' = [op |-> "add_proc", arg |-> None,
                          ret |-> IF k.panicked THEN None
                                  ELSE Some(GeneratePid(processes).pid)]
    /\ UNCHANGED <<retired, admitted, inserted>>

\* The effect of os.tick(): the handler, and the processes its retain() drops.
TickStep ==
    /\ \E tb \in TieBreaksOf(policy) :
          LET k == OsTick(K(tb))
              before == OnTick([K(tb) EXCEPT !.clock = @ + interval,
                                             !.waiting_list = WheelTick(@)])
          IN  /\ Commit(k)
              /\ retired' = [p \in PIds |->
                               IF p \in DOMAIN before.processes /\ p \notin DOMAIN k.processes
                               THEN Some(before.processes[p])
                               ELSE retired[p]]
    /\ last_op' = [op |-> "tick", arg |-> None, ret |-> None]

\* os.tick()
Tick ==
    /\ ~panicked
    /\ clock < MaxClock
    /\ TickStep
    /\ UNCHANGED <<admitted, inserted>>

\* os.switch_proc(pid)
SwitchProc(pid) ==
    /\ ~panicked
    /\ Commit(OsSwitchProc(K(NoTb), pid))
    /\ last_op' = [op |-> "switch_proc", arg |-> pid, ret |-> None]
    /\ UNCHANGED <<retired, admitted, inserted>>

\* os.await_proc(pid, duration)
AwaitProc(pid, duration) ==
    /\ ~panicked
    /\ Pending(waiting_list) < MaxPending
    /\ Commit(OsAwaitProc(K(NoTb), pid, duration))
    /\ last_op' = [op |-> "await_proc", arg |-> Some(pid), ret |-> None]
    /\ UNCHANGED <<retired, admitted, inserted>>

\* os.complete_proc(pid)
CompleteProc(pid) ==
    /\ ~panicked
    /\ Commit(OsCompleteProc(K(NoTb), pid))
    /\ last_op' = [op |-> "complete_proc", arg |-> Some(pid), ret |-> None]
    /\ UNCHANGED <<retired, admitted, inserted>>

\* The kernel under admission, blocking, switching and ticks.
Next ==
    \/ \E w \in Workloads : AddProc(w)
    \/ Tick
    \/ \E pid \in {None} \cup {Some(p) : p \in PIds} : SwitchProc(pid)
    \/ \E pid \in PIds, d \in 0..MaxDuration : AwaitProc(pid, d)

Spec == Init /\ [][Next]_vars

\* The kernel under admission, completion and ticks.
NextAdmit ==
    \/ \E w \in Workloads : AddProc(w)
    \/ Tick
    \/ \E pid \in PIds : CompleteProc(pid)

SpecAdmit == Init /\ [][NextAdmit]_vars

----------------------------------------------------------------------------
(* The end-to-end runs: processes are admitted, then run() drives tick().  *)

\* os.add_proc(&mut process) before the run starts
RunAddProc(w) ==
    /\ ~panicked
    /\ clock = 0
    /\ Len(admitted) < MAX_PID - 1
    /\ LET k == OsAddProc(K(NoTb), w)
       IN  /\ Commit(k)
           /\ last_op' = [op |-> "add_proc", arg |-> None,
                          ret |-> IF k.panicked THEN None
                                  ELSE Some(GeneratePid(processes).pid)]
    /\ admitted' = Append(admitted, w)
    /\ UNCHANGED <<retired, inserted>>

\* One iteration of Os::run: `while !self.is_completed() { self.tick(); }`
RunTick ==
    /\ ~panicked
    /\ ~OsIsCompleted(K(NoTb))
    /\ clock < MaxRunClock
    /\ TickStep
    /\ UNCHANGED <<admitted, inserted>>

NextRun ==
    \/ \E w \in RunWorkloads : RunAddProc(w)
    \/ RunTick

SpecRun == Init /\ [][NextRun]_vars

\* run() keeps calling tick() while is_completed() is false.
SpecRunLive == Init /\ [][NextRun]_vars /\ WF_vars(RunTick)

----------------------------------------------------------------------------
(* The timing wheel on its own, under add_timeout, tick and expire_timeout.*)

WheelSizes == {3, 8}

InitWheel ==
    /\ policy = "FCFS"
    /\ scheduler = SchedulerInit(0, <<0, 0>>)
    /\ interval = 1
    /\ clock = 0
    /\ \E n \in WheelSizes : waiting_list = WheelWithSizeAndResolution(n, 1)
    /\ processes = << >>
    /\ running_process_pid = None
    /\ panicked = FALSE
    /\ last_op = [op |-> "new", arg |-> None, ret |-> None]
    /\ retired = [p \in PIds |-> None]
    /\ admitted = <<>>
    /\ inserted = [x \in PIds |-> None]

KernelUnchanged ==
    UNCHANGED <<policy, interval, clock, processes, running_process_pid, scheduler,
                panicked, retired, admitted>>

\* wheel.add_timeout(x, d), for an item that is not registered
WheelAdd(x, d) ==
    /\ inserted[x] = None
    /\ Pending(waiting_list) < MaxPending
    /\ waiting_list' = WheelAddTimeout(waiting_list, x, d)
    /\ inserted' = [inserted EXCEPT ![x] = Some([deadline |-> d, age |-> 0])]
    /\ last_op' = [op |-> "add_timeout", arg |-> Some(x), ret |-> None]
    /\ KernelUnchanged

\* wheel.tick()
WheelTickCall ==
    /\ waiting_list.current_tick + 1 < MaxWheelTicks
    /\ waiting_list' = WheelTick(waiting_list)
    /\ inserted' = [x \in PIds |->
                      IF IsSome(inserted[x])
                      THEN Some([Unwrap(inserted[x]) EXCEPT !.age = @ + 1])
                      ELSE None]
    /\ last_op' = [op |-> "tick", arg |-> None, ret |-> None]
    /\ KernelUnchanged

\* wheel.expire_timeout(); last_op keeps the returned item with the deadline it
\* was added with and the number of tick() calls since.
WheelExpire ==
    LET r == WheelExpireTimeout(waiting_list)
    IN  /\ waiting_list' = r.wheel
        /\ last_op' = [op |-> "expire_timeout",
                       arg |-> IF IsSome(r.ret) THEN inserted[Unwrap(r.ret)] ELSE None,
                       ret |-> r.ret]
        /\ inserted' = [x \in PIds |->
                          IF r.ret = Some(x) THEN None ELSE inserted[x]]
        /\ KernelUnchanged

NextWheel ==
    \/ \E x \in PIds, d \in 0..MaxDeadline : WheelAdd(x, d)
    \/ WheelTickCall
    \/ WheelExpire

SpecWheel == InitWheel /\ [][NextWheel]_vars

----------------------------------------------------------------------------
(* One process under the calls the dispatch protocol of scheduler.rs makes *)
(* on it: Process::append_task by the workload, then per tick either       *)
(* Scheduler::burst_proc on it, or nothing while it is not running.  The   *)
(* process is entry 1 of the table.                                        *)

\* A process holds at most MaxTasks segments.
MaxTasks == 2
\* Segment durations range over 1..MaxTaskDuration.
MaxTaskDuration == 2
\* Arrival ticks range over 0..MaxArrive.
MaxArrive == 1
\* The process is followed for at most MaxProcClock ticks.
MaxProcClock == 5
\* The burst_time given to Process::new ranges over 0..MaxBurstTime.
MaxBurstTime == 2

Tasks ==
    {IOBound(d) : d \in 1..MaxTaskDuration} \cup {CPUBound(d) : d \in 1..MaxTaskDuration}

\* What Scheduler::burst_proc does to the running process p at clock clk:
\* burst; on a returned IOBound segment run_io_bound_task's bump_to_next and
\* complete_proc if the process is complete (await_proc leaves the process as it
\* is); on a returned CPUBound segment nothing; on None complete_proc if the
\* process is complete.
DispatchBurst(p, clk) ==
    LET r == Burst(p, clk)
    IN  IF IsSome(r.ret)
        THEN IF Unwrap(r.ret).kind = "IOBound"
             THEN LET b == BumpToNext(r.proc)
                  IN  IF IsSome(b.ret) /\ IsComplete(b.proc)
                      THEN SetComplete(b.proc, clk)
                      ELSE b.proc
             ELSE r.proc
        ELSE IF IsComplete(r.proc)
             THEN SetComplete(r.proc, clk)
             ELSE r.proc

InitProc ==
    /\ policy = "FCFS"
    /\ scheduler = SchedulerInit(0, <<0, 0>>)
    /\ interval = 1
    /\ clock = 0
    /\ waiting_list = WheelNew
    /\ \E a \in 0..MaxArrive, b \in 0..MaxBurstTime :
          processes = (1 :> ProcessNew(1, a, b))
    /\ running_process_pid = None
    /\ panicked = FALSE
    /\ last_op = [op |-> "new", arg |-> None, ret |-> None]
    /\ retired = [p \in PIds |-> None]
    /\ admitted = <<>>
    /\ inserted = [x \in PIds |-> None]

ProcUnchanged ==
    UNCHANGED <<policy, interval, waiting_list, running_process_pid, scheduler,
                panicked, retired, admitted, inserted>>

\* process.append_task(task), before the process is first burst
ProcAppendTask(task) ==
    /\ processes[1].time_have_burst = 0
    /\ processes[1].state = "Runnable"
    /\ Len(processes[1].tasks) < MaxTasks
    /\ processes' = [processes EXCEPT ![1] = AppendTask(@, task)]
    /\ last_op' = [op |-> "append_task", arg |-> Some(task), ret |-> None]
    /\ UNCHANGED clock
    /\ ProcUnchanged

\* Os::tick while the process is the running one: the clock advances by the
\* interval and Scheduler::burst_proc bursts the process.
ProcBurst ==
    /\ clock < MaxProcClock
    /\ processes[1].burst_time > 0
    /\ clock' = clock + interval
    /\ processes' = [processes EXCEPT ![1] = DispatchBurst(@, clock')]
    /\ last_op' = [op |-> "burst", arg |-> None, ret |-> Burst(processes[1], clock').ret]
    /\ ProcUnchanged

\* Os::tick while the process is ready or blocked: the clock advances and the
\* process is left alone.
ProcWait ==
    /\ clock < MaxProcClock
    /\ processes[1].state /= "Terminated"
    /\ clock' = clock + interval
    /\ last_op' = [op |-> "wait", arg |-> None, ret |-> None]
    /\ UNCHANGED processes
    /\ ProcUnchanged

\* os.complete_proc(1)
ProcComplete ==
    /\ processes[1].burst_time > 0
    /\ processes' = [processes EXCEPT ![1] = SetComplete(@, clock)]
    /\ last_op' = [op |-> "complete_proc", arg |-> Some(1), ret |-> None]
    /\ UNCHANGED clock
    /\ ProcUnchanged

NextProc ==
    \/ \E task \in Tasks : ProcAppendTask(task)
    \/ ProcBurst
    \/ ProcWait
    \/ ProcComplete

SpecProc == InitProc /\ [][NextProc]_vars

----------------------------------------------------------------------------
(* The kernel under the fair-share policy: admission of weighted processes,*)
(* blocking, ticks, and the policy's on_process_burst hook.                *)

\* Weights range over 0..MaxPriority.
MaxPriority == 1
\* The values drawn for rand::random::<usize>().
RandomValues == {0, 99}

InitFair ==
    /\ policy = "FairShare"
    /\ scheduler = SchedulerInit(0, <<0, 0>>)
    /\ interval = 1
    /\ clock = 0
    /\ waiting_list = WheelNew
    /\ processes = << >>
    /\ running_process_pid = None
    /\ panicked = FALSE
    /\ last_op = [op |-> "new", arg |-> None, ret |-> None]
    /\ retired = [p \in PIds |-> None]
    /\ admitted = <<>>
    /\ inserted = [x \in PIds |-> None]

\* scheduler.on_process_burst(os, pid), as burst_proc calls it after a burst
FairOnProcessBurst(pid, rnd, tb) ==
    /\ ~panicked
    /\ Commit(FairShareOnProcessBurst([K(tb) EXCEPT !.rnd = rnd], pid))
    /\ last_op' = [op |-> "on_process_burst", arg |-> Some(pid), ret |-> None]
    /\ UNCHANGED <<retired, admitted, inserted>>

NextFair ==
    \/ \E pr \in 0..MaxPriority : AddProc(WithPriority(ProcessNew(0, 0, 3), pr))
    \/ Tick
    \/ \E pid \in PIds : AwaitProc(pid, 0)
    \/ \E pid \in PIds : CompleteProc(pid)
    \/ \E pid \in PIds, rnd \in RandomValues, tb \in TieBreaks :
          FairOnProcessBurst(pid, rnd, tb)

SpecFair == InitFair /\ [][NextFair]_vars

----------------------------------------------------------------------------
(* The kernel under STCF: admission, blocking, completion, ticks, and the  *)
(* policy's on_process_burst hook.                                         *)

\* The processes handed to add_proc under STCF: burst times alone, so that
\* remaining_time is the burst time.
StcfWorkloads == {ProcessNew(0, 0, 2), ProcessNew(0, 0, 4)}

InitStcf ==
    /\ policy = "STCF"
    /\ scheduler = SchedulerInit(0, <<0, 0>>)
    /\ interval = 1
    /\ clock = 0
    /\ waiting_list = WheelNew
    /\ processes = << >>
    /\ running_process_pid = None
    /\ panicked = FALSE
    /\ last_op = [op |-> "new", arg |-> None, ret |-> None]
    /\ retired = [p \in PIds |-> None]
    /\ admitted = <<>>
    /\ inserted = [x \in PIds |-> None]

\* scheduler.on_process_burst(os, pid), as burst_proc calls it after the burst
\* of pid and the run_task / complete_proc that followed it
StcfOnProcessBurst(pid, tb) ==
    /\ ~panicked
    /\ Commit(STCFOnProcessBurst(K(tb), pid))
    /\ last_op' = [op |-> "on_process_burst", arg |-> Some(pid), ret |-> None]
    /\ UNCHANGED <<retired, admitted, inserted>>

NextStcf ==
    \/ \E w \in StcfWorkloads : AddProc(w)
    \/ Tick
    \/ \E pid \in PIds : AwaitProc(pid, 0)
    \/ \E pid \in PIds : CompleteProc(pid)
    \/ \E pid \in PIds, tb \in TieBreaks : StcfOnProcessBurst(pid, tb)

SpecStcf == InitStcf /\ [][NextStcf]_vars

----------------------------------------------------------------------------
(* Properties.                                                             *)

CPU5 == AppendTask(ProcessNew(0, 0, 0), CPUBound(5))
CPU2 == AppendTask(ProcessNew(0, 0, 0), CPUBound(2))

\* The run of one process with a single CPU-bound segment of length 5 under
\* FCFS, once run() has started.
ScenarioFCFS == policy = "FCFS" /\ admitted = <<CPU5>> /\ clock >= 1

\* C1: in the run of one process (arrival 0, one CPU-bound segment of length 5)
\* under FCFS, the process is running at the end of tick 1, and from tick 5 on it
\* has left the table Terminated with completion tick 5, turnaround_time 5 and
\* response_time 0.
C1_EndToEndFCFS ==
    ScenarioFCFS =>
        /\ clock = 1 =>
              /\ running_process_pid = Some(1)
              /\ 1 \in DOMAIN processes
              /\ processes[1].state = "Running"
        /\ clock >= 5 =>
              /\ IsSome(retired[1])
              /\ Unwrap(retired[1]).state = "Terminated"
              /\ Unwrap(retired[1]).complete_time = Some(5)
              /\ Unwrap(retired[1]).turnaround_time = Some(5)
              /\ Unwrap(retired[1]).response_time = Some(0)

\* The items repeated calls of expire_timeout() return until it returns none.
RECURSIVE Drainable(_)
Drainable(w) ==
    LET r == WheelExpireTimeout(w)
    IN  IF IsSome(r.ret) THEN {Unwrap(r.ret)} \cup Drainable(r.wheel) ELSE {}

\* C2: an item added with relative deadline d is not returned by an
\* expire_timeout() made after fewer than d tick() calls, and after exactly d
\* tick() calls repeated expire_timeout() calls return it.
C2_WheelDelivery ==
    /\ (last_op.op = "expire_timeout" /\ IsSome(last_op.ret)) =>
          Unwrap(last_op.arg).age >= Unwrap(last_op.arg).deadline
    /\ \A x \in PIds :
          (IsSome(inserted[x]) /\ Unwrap(inserted[x]).age = Unwrap(inserted[x]).deadline)
              => x \in Drainable(waiting_list)

\* C3: after switch_proc(Some(id)) with id in the table, id is the running
\* process and is in state Running; after switch_proc(None) no process is running.
C3_SwitchToSetsRunning ==
    last_op.op = "switch_proc" =>
        IF IsSome(last_op.arg)
        THEN Unwrap(last_op.arg) \in DOMAIN processes =>
                /\ running_process_pid = last_op.arg
                /\ processes[Unwrap(last_op.arg)].state = "Running"
        ELSE running_process_pid = None

\* C5: under STCF every ready process is queued under its remaining time, and
\* at the end of a tick no ready process is shorter than the running process by
\* more than the one tick of detection latency.
C5_STCFPreemption ==
    policy = "STCF" =>
        \A p \in DOMAIN scheduler.pq \cap DOMAIN processes :
            /\ scheduler.pq[p] = processes[p].remaining_time
            /\ \A r \in DOMAIN processes :
                  (last_op.op = "tick" /\ running_process_pid = Some(r)) =>
                      ~U64Lt(processes[p].remaining_time + 1, processes[r].remaining_time)

\* The two-process run under SJF, once run() has started: lengths 5 and 2,
\* admitted in either order; Len5 and Len2 are their ids.
ScenarioSJF ==
    /\ policy = "SJF"
    /\ admitted \in {<<CPU5, CPU2>>, <<CPU2, CPU5>>}
    /\ clock >= 1

Len5 == IF admitted[1] = CPU5 THEN 1 ELSE 2
Len2 == IF admitted[1] = CPU2 THEN 1 ELSE 2

\* C7: in the run of two processes (arrival 0, CPU-bound segments of lengths 5
\* and 2) under SJF, the length-2 process has terminated by tick 2, the length-5
\* process has not terminated before it, and terminates at tick 7.
C7_EndToEndSJF ==
    ScenarioSJF =>
        /\ clock >= 2 =>
              /\ IsSome(retired[Len2])
              /\ Unwrap(retired[Len2]).state = "Terminated"
              /\ Unwrap(Unwrap(retired[Len2]).complete_time) <= 2
        /\ clock < 7 => retired[Len5] = None
        /\ clock >= 7 =>
              /\ IsSome(retired[Len5])
              /\ Unwrap(retired[Len5]).state = "Terminated"
              /\ Unwrap(retired[Len5]).complete_time = Some(7)

\* C8: add_proc gives the process an id that is no key of the table and leaves
\* every other entry alone, the admitted process is in the table under that id in
\* state Runnable, and an id leaves the table (so that it can be given again)
\* only when its owner is removed in state Terminated.
C8_AdmitUniqueId ==
    [][ /\ (last_op'.op = "add_proc" /\ IsSome(last_op'.ret)) =>
              LET pid == Unwrap(last_op'.ret)
              IN  /\ pid \notin DOMAIN processes
                  /\ DOMAIN processes' = DOMAIN processes \cup {pid}
                  /\ \A q \in DOMAIN processes : processes'[q] = processes[q]
                  /\ processes'[pid].id = pid
                  /\ processes'[pid].state = "Runnable"
        /\ \A q \in DOMAIN processes \ DOMAIN processes' :
              /\ last_op'.op = "tick"
              /\ IsSome(retired'[q])
              /\ Unwrap(retired'[q]).state = "Terminated"
      ]_vars

\* An id has been given to a second process after its first owner was removed.
C8_Witness ==
    \E p \in PIds :
        /\ IsSome(retired[p])
        /\ p \in DOMAIN processes
        /\ processes[p].state = "Runnable"
        /\ last_op.op = "add_proc"
        /\ last_op.ret = Some(p)

\* The number of live processes at which generate_pid finds no id below MAX_PID.
Capacity == MAX_PID - 1

\* C9: add_proc panics exactly when the table holds Capacity processes, and then
\* the table is unchanged; with fewer it returns an id.
C9_CapacityError ==
    [][ last_op'.op = "add_proc" =>
           /\ panicked' <=> Cardinality(DOMAIN processes) >= Capacity
           /\ panicked' => processes' = processes
           /\ ~panicked' => Cardinality(DOMAIN processes') = Cardinality(DOMAIN processes) + 1
      ]_vars

\* add_proc has panicked on a full table.
C9_Witness ==
    /\ panicked
    /\ last_op.op = "add_proc"
    /\ Cardinality(DOMAIN processes) = Capacity

\* C10: after await_proc(id, duration) for a process of the table, id is
\* registered in the timing wheel and the process is Waiting; every process whose
\* id is registered in the wheel is Waiting.
C10_BlockedIsWaiting ==
    /\ (last_op.op = "await_proc" /\ Unwrap(last_op.arg) \in DOMAIN processes) =>
          /\ Unwrap(last_op.arg) \in PendingItems(waiting_list)
          /\ processes[Unwrap(last_op.arg)].state = "Waiting"
    /\ \A pid \in PendingItems(waiting_list) \cap DOMAIN processes :
          processes[pid].state = "Waiting"

\* C11 (burst accounting bound): a burst of the dispatch protocol on a process
\* that is not Terminated, with the bump_to_next it makes on an I/O-bound
\* segment, never lowers time_have_burst and never leaves it above burst_time.
C11_BurstAccountingBound ==
    [][(last_op'.op = "burst" /\ processes[1].state /= "Terminated") =>
          /\ processes'[1].time_have_burst >= processes[1].time_have_burst
          /\ processes'[1].time_have_burst <= processes'[1].burst_time]_vars

\* C12 (remaining-time invariant): after construction, append_task, burst and
\* bump_to_next, remaining_time is burst_time minus time_have_burst.
C12_RemainingTime ==
    \A p \in DOMAIN processes :
        processes[p].remaining_time
            = processes[p].burst_time - processes[p].time_have_burst

\* C13 (response time): a burst assigns response_time only when none is set, the
\* first burst sets it to clock - arrive_time - 1, and that value is not below
\* zero when the process arrived no later than the tick of the burst.
C13_ResponseTime ==
    [][last_op'.op = "burst" =>
          IF IsSome(processes[1].response_time)
          THEN processes'[1].response_time = processes[1].response_time
          ELSE /\ processes'[1].response_time
                     = Some(clock' - processes[1].arrive_time - 1)
               /\ processes[1].arrive_time <= clock'
                     => Unwrap(processes'[1].response_time) >= 0]_vars

\* C14 (idempotent completion): a Terminated process has turnaround_time =
\* complete_time - arrive_time, and no later burst or complete_proc changes its
\* complete_time, its turnaround_time or its state.
C14_IdempotentCompletion ==
    /\ [](processes[1].state = "Terminated" =>
            /\ IsSome(processes[1].complete_time)
            /\ processes[1].turnaround_time
                  = Some(Unwrap(processes[1].complete_time) - processes[1].arrive_time))
    /\ [][processes[1].state = "Terminated" =>
            /\ processes'[1].state = "Terminated"
            /\ processes'[1].complete_time = processes[1].complete_time
            /\ processes'[1].turnaround_time = processes[1].turnaround_time]_vars

\* C20 (segment counters never go below zero): no segment's duration is below
\* zero, and a burst that finds the front CPU-bound segment at duration 0 and
\* does not complete the process leaves that segment and takes the tick from
\* the segment behind it.
C20_SegmentCounters ==
    /\ [](\A i \in 1..Len(processes[1].tasks) : processes[1].tasks[i].duration >= 0)
    /\ [][(/\ last_op'.op = "burst"
           /\ processes[1].tasks /= <<>>
           /\ Head(processes[1].tasks) = CPUBound(0)
           /\ processes'[1].state /= "Terminated")
          => /\ Len(processes[1].tasks) >= 2
             /\ processes'[1].tasks /= <<>>
             /\ Head(processes'[1].tasks).kind = processes[1].tasks[2].kind
             /\ Head(processes'[1].tasks).duration
                   = processes[1].tasks[2].duration - 1]_vars

\* The ticket holders on_process_burst keeps: live processes not Terminated.
FairHolders ==
    {p \in DOMAIN scheduler.process_ticket :
        p \in DOMAIN processes /\ processes[p].state /= "Terminated"}

\* C15 (no candidate means idle, not error): under the fair-share policy a tick
\* that dispatches with no process chosen, and an on_process_burst whose
\* holders' tickets sum to zero (no holder, or every weight 0), leave no process
\* running and raise no error.
C15_NoCandidateIsIdle ==
    [][/\ (last_op'.op = "tick" /\ scheduler.next_pid = None)
            => (~panicked' /\ running_process_pid' = None)
       /\ (/\ last_op'.op = "on_process_burst"
           /\ SumTickets([p \in FairHolders |-> scheduler.process_ticket[p]]) = 0)
            => (~panicked' /\ running_process_pid' = None)]_vars

\* The index of the bucket the cursor of wheel w is at.
CursorBucket(w) == AsUsizeMod(w.current_tick, w.wheel_size) + 1

\* C16 (expire_timeout returns only due entries): expire_timeout() removes and
\* returns the front entry of the bucket at the cursor only if that entry's
\* round is not above zero; otherwise it returns None and leaves the wheel as
\* it is.
C16_ExpireOnlyDue ==
    [][last_op'.op = "expire_timeout" =>
          LET idx == CursorBucket(waiting_list)
              b   == waiting_list.buckets[idx]
          IN  IF b /= <<>> /\ Head(b).round <= 0
              THEN /\ last_op'.ret = Some(Head(b).item)
                   /\ waiting_list' = [waiting_list EXCEPT !.buckets[idx] = Tail(b)]
              ELSE /\ last_op'.ret = None
                   /\ waiting_list' = waiting_list]_vars

\* C17 (round-decrement scope of tick): the wheel's tick() lowers by one the
\* round of the entries of the bucket the cursor has just reached and leaves
\* the entries of every other bucket as they are.
C17_TickDecrementScope ==
    [][last_op'.op = "tick" =>
          \A i \in 1..waiting_list.wheel_size :
              waiting_list'.buckets[i]
                  = IF i = CursorBucket(waiting_list')
                    THEN BucketTick(waiting_list.buckets[i])
                    ELSE waiting_list.buckets[i]]_vars

\* The MLFQ levels at the moment tick() dispatches: after the clock and the
\* wheel have advanced and the expired ids have been handed to on_process_ready.
LevelsAtDispatch ==
    DrainExpired([K(NoTb) EXCEPT !.clock = @ + interval,
                                 !.waiting_list = WheelTick(@)]).sch.ready_queues

\* C18 (MLFQ selection order): a tick that dispatches under MLFQ takes the
\* process from the highest-priority non-empty level, and within the level the
\* one inserted earliest (the levels keep their ids in insertion order).
C18_MLFQSelectionOrder ==
    [][(policy = "MLFQ" /\ last_op'.op = "tick") =>
          LET nonempty == {pr \in 0..2 : LevelsAtDispatch[pr + 1] /= <<>>}
          IN  nonempty /= {} =>
                 scheduler'.running_process
                    = Some(<<Head(LevelsAtDispatch[SetMin(nonempty) + 1]),
                             SetMin(nonempty)>>)]_vars

RunNoProgress ==
    /\ running_process_pid = None
    /\ \A p \in PIds : retired[p] = None
    /\ Len(admitted) = Cardinality(DOMAIN processes)
    /\ \A p \in DOMAIN processes :
          /\ processes[p] = SetPid(admitted[p], p)
          /\ ~processes[p].complete

\* C21 (STCF re-queues only the preempted running process): an on_process_burst
\* for pid puts pid into the ready queue, or gives it a new key there, only if
\* pid was the running process when the hook was called, and then pid is not
\* pending in the timing wheel.
C21_STCFRequeueOnlyRunning ==
    [][(last_op'.op = "on_process_burst"
          /\ Unwrap(last_op'.arg) \in DOMAIN scheduler'.pq
          /\ (Unwrap(last_op'.arg) \in DOMAIN scheduler.pq
                => scheduler'.pq[Unwrap(last_op'.arg)]
                      /= scheduler.pq[Unwrap(last_op'.arg)]))
       => /\ running_process_pid = last_op'.arg
          /\ Unwrap(last_op'.arg) \notin PendingItems(waiting_list')]_vars

====
